---------------------------- MODULE Spec2Model ----------------------------
(***************************************************************************)
(* Model of the bulk PropertyGuru crawler (server: POST /crawl handler,    *)
(* FastCrawler.initBrowsers / crawlMultipleUrls / crawlPropertyGuru /      *)
(* emitProgress).                                                          *)
(*                                                                         *)
(* One batch request is followed from its arrival to the end of its event  *)
(* stream.  Every await of the code is a point where the other URLs'       *)
(* controllers may run; the outcome of every call into the browser         *)
(* (launch, newPage, goto, evaluate, waitForSelector, click, close) is     *)
(* chosen by the environment.                                              *)
(*                                                                         *)
(* Beside it, the command-line crawler (src/crawler.js, crawlPriceHistory)  *)
(* is run against the same table as the batch controller (SpecCli), and     *)
(* the handler is followed for two requests that share the session          *)
(* registry and the clock (SpecSessions).                                   *)
(*                                                                         *)
(* Indices are 0-based as in the code; TLA+ sequences are 1-based, so the  *)
(* URL of index i is urls[i + 1] and the browser of index b is             *)
(* browsers[b + 1].                                                        *)
(***************************************************************************)
EXTENDS Integers, Sequences, FiniteSets, TLC

\* ----------------------------------------------------------------- bounds
MaxUrls == 2
MaxConc == 2
MaxPages == 2
MaxRows == 2
MaxAddrLen == 4
TableMaxPages == 3
TableMaxRows == 2
MaxClock == 2
MaxEvents == 2

\* ------------------------------------------------------ program constants
DefaultConcurrency == 3

VARIABLES
    hpc,             \* position of the POST /crawl handler
    httpStatus,      \* 0: no response head yet, 200: event stream, 400: rejected
    urls,            \* req.body.urls as accepted (<<>> before / without a list)
    optConcurrency,  \* options.concurrency of the request (0: omitted)
    concurrency,     \* FastCrawler.concurrency (0 before construction)
    activeCrawls,    \* the session registry: set of registered session ids
    stream,          \* kinds of the events written to res, in order
    streamOpen,      \* res has not been ended
    browsers,        \* FastCrawler.browsers: state of each launched browser
    results,         \* the value crawlMultipleUrls returned (<<>> before)
    cpc,             \* per URL index: position of crawlPropertyGuru
    tab,             \* per URL index: [state, browser] of the tab it opened
    currentPage,     \* per URL index: the page counter
    allTransactions, \* per URL index: the accumulator
    ret,             \* per URL index: value returned / reason of rejection
    progress,        \* per URL index: progress events written to the sink
    rootFound,       \* per URL index: did ".price-history-table-root" appear
    site,            \* per URL index: the table the site serves (<<>>: any)
    reqKind,         \* what req.body.urls was: "missing", "notArray", "list"
    rowElements,     \* the rows of the page the row extractor is run on
    extracted,       \* the pageData the row extractor returned for them
    cli,             \* the run of the command-line crawler (crawlPriceHistory)
    now,             \* Date.now(), when two batch requests are followed
    registry,        \* activeCrawls with its entries, for the two requests
    batch            \* per request: handler position, session id, its res

vars == << hpc, httpStatus, urls, optConcurrency, concurrency, activeCrawls,
           stream, streamOpen, browsers, results, cpc, tab, currentPage,
           allTransactions, ret, progress, rootFound, site, reqKind,
           rowElements, extracted, cli, now, registry, batch >>

\* the handler's and the coordinator's state, which no controller writes
handlerState == << hpc, httpStatus, reqKind, urls, optConcurrency,
                   concurrency, activeCrawls, streamOpen, browsers, results >>

\* the state of the per-URL controllers and of their sites
urlState == << cpc, tab, currentPage, allTransactions, ret, progress,
               rootFound, site >>

\* the input and the output of the row extractor
extractState == << rowElements, extracted >>

\* the clock, the registry and the handlers of two concurrent requests
sessionState == << now, registry, batch >>

\* what the batch handler and its controllers never touch
otherState == << extractState, cli, sessionState >>

Indices == 0 .. (MaxUrls - 1)

\* the session identifier of the batch (Date.now().toString())
SessionId == "sid"

\* JS null in the `data` slot of a batch entry, and in its `error` slot
Null == [kind |-> "null"]
NoMessage == "<null>"

\* ------------------------------------------------------------ the request
\* An element of the URL list: a string (taken with surrounding blanks, which
\* trim removes) or a JSON value that is no string (a number, null, an object).
UrlKinds == {"padded", "nonString"}

Url(id, kind) == [id |-> id, kind |-> kind]

UrlLists ==
    UNION { { [k \in 1 .. n |-> Url(k - 1, f[k])] : f \in [1 .. n -> UrlKinds] }
            : n \in 0 .. MaxUrls }

\* options.concurrency: 0 stands for an omitted (or falsy) option
ConcurrencyOptions == 0 .. MaxConc

\* String.prototype.trim on a URL; defined on strings only
Trim(u) == [u EXCEPT !.kind = "trimmed"]

IsString(u) == u.kind # "nonString"

\* options.concurrency || 3
EffectiveConcurrency(opt) == IF opt = 0 THEN DefaultConcurrency ELSE opt

\* A validation that lets an empty list through.
RejectsUnlessList(kind, list) ==
    \/ kind = "missing"
    \/ kind = "notArray"

\* !urls || !Array.isArray(urls) || urls.length === 0
RejectsRequest(kind, list) ==
    \/ kind = "missing"
    \/ kind = "notArray"
    \/ Len(list) = 0


\* ------------------------------------------------- the site (environment)
\* What document.querySelector('[da-id="hui-pagination-btn-next"]') and the
\* class of its enclosing <li> give: { exists, enabled }.
NextAbsent == [exists |-> FALSE, enabled |-> FALSE]
NextDisabled == [exists |-> TRUE, enabled |-> FALSE]
NextEnabled == [exists |-> TRUE, enabled |-> TRUE]

\* One page of a table: the rows it renders, its next control, whether a
\* click on the control succeeds, and whether the network then goes idle
\* within the bound of the idle wait.
TablePage(r, nx, ck, id) == [rows |-> r, next |-> nx, click |-> ck, idle |-> id]

\* What follows a click on the next control: the click throws, or it succeeds
\* and the idle wait resolves ("ok") or times out ("okLate").
ClickOutcomes == {"ok", "okLate", "throw"}

\* The tables of k pages: the next control is enabled on pages 1..k-1 and
\* disabled or absent on page k.
TablesOf(k) ==
    { [p \in 1 .. k |->
          IF p < k
          THEN TablePage(rs[p], NextEnabled,
                         IF cs[p] = "throw" THEN "throw" ELSE "ok",
                         IF cs[p] = "okLate" THEN "timeout" ELSE "idle")
          ELSE TablePage(rs[p], last, "ok", "idle")] :
        rs \in [1 .. k -> 0 .. TableMaxRows],
        cs \in [1 .. k -> ClickOutcomes],
        last \in {NextAbsent, NextDisabled} }

Tables == UNION { TablesOf(k) : k \in 1 .. TableMaxPages }

\* The tables whose last page keeps its next control enabled: the control is
\* not inside an <li class="disabled">, and a click on it changes nothing.
StuckTables ==
    { [t EXCEPT ![Len(t)] = TablePage(@.rows, NextEnabled, "ok", "idle")] :
        t \in Tables }

\* The site of URL i serves a fixed table (otherwise each page is chosen
\* when the controller looks at it).
Fixed(i) == site[i] # << >>

\* The page of its table the site of URL i shows when the page counter is
\* p: page p, and still the last page when the next control of the last
\* page was clicked (nothing follows it).
Shown(i) ==
    site[i][IF currentPage[i] > Len(site[i]) THEN Len(site[i])
                                             ELSE currentPage[i]]

\* Number of rows matching ".table-row-collapsed" on the page now shown.
\* Without a fixed table a page renders a full page of MaxRows rows, or none.
RowChoices(i) ==
    IF Fixed(i) THEN { Shown(i).rows } ELSE { 0, MaxRows }

NextChoices(i) ==
    IF Fixed(i) THEN { Shown(i).next }
    ELSE IF currentPage[i] < MaxPages
         THEN { NextAbsent, NextDisabled, NextEnabled }
         ELSE { NextAbsent, NextDisabled }

ClickChoices(i) ==
    IF Fixed(i) THEN { Shown(i).click } ELSE { "ok", "throw" }

IdleChoices(i) ==
    IF Fixed(i) THEN { Shown(i).idle } ELSE { "idle", "timeout" }

\* The index of the page of its table the site of URL i shows: the page
\* counter, or the last page's index when the counter has passed it.
ShownIndex(i) ==
    IF Fixed(i) /\ currentPage[i] > Len(site[i]) THEN Len(site[i])
                                                 ELSE currentPage[i]

\* The records the row extractor returns for the n rows of page p of the
\* table: what it reads is in the rows, so that a page shown again gives the
\* same records again.
PageData(p, n) == [j \in 1 .. n |-> [page |-> p, row |-> j]]

\* ------------------------------------------------------ the row extractor
\* Text is a sequence of characters.  The characters that matter to the
\* extractor: the unit marker, two digits, the hyphen, a letter, a blank.
Chars == {"#", "0", "7", "-", "x", " "}
Digits == {"0", "7"}

Texts(n) == UNION { [1 .. k -> Chars] : k \in 0 .. n }

\* String.prototype.trim: the text without its leading and trailing blanks.
TrimText(s) ==
    LET inked == { k \in 1 .. Len(s) : s[k] # " " }
    IN IF inked = {} THEN << >>
       ELSE SubSeq(s, CHOOSE k \in inked : \A j \in inked : k <= j,
                      CHOOSE k \in inked : \A j \in inked : j <= k)

\* JS values of a record's field: a string, or undefined.
Str(text) == [kind |-> "string", text |-> text]
Undefined == [kind |-> "undefined"]

\* What querySelector gives: null, or an element with its textContent.
Absent == [kind |-> "absent"]
Element(text) == [kind |-> "element", textContent |-> text]

\* A cell with one value sub-element (".field-value", ".expanded-item-value"),
\* and a cell with a ".main-text" and a ".sub-text".
Cell(value) == [kind |-> "cell", value |-> value]
Cell2(main, sub) == [kind |-> "cell", main |-> main, sub |-> sub]

\* row.nextElementSibling: null, a row of another class, or the
\* "table-row-expanded" row with its lease and address items.
OtherRow == [kind |-> "other"]
ExpandedRow(lease, address) ==
    [kind |-> "expanded", lease |-> lease, address |-> address]

\* One ".table-row-collapsed" row as the extractor sees it.
RowElement(date, bedroom, price, floorLevel, completed, sibling) ==
    [date |-> date, bedroom |-> bedroom, price |-> price,
     floorLevel |-> floorLevel, completed |-> completed, sibling |-> sibling]

\* The text of a cell that is not an address.
CellText == << " ", "x", " " >>

SubElements == { Absent, Element(CellText) }
Cells == { Absent } \cup { Cell(v) : v \in SubElements }
Cells2 == { Absent } \cup { Cell2(m, u) : m, u \in SubElements }

\* Addresses the rows of every shape are combined with: one with a unit
\* number, one without.
SampleAddresses == { << " ", "#", "0", "7", "-" >>, << "x" >> }

AddressCells(texts) ==
    { Absent, Cell(Absent) } \cup { Cell(Element(t)) : t \in texts }

Siblings(texts) ==
    { Absent, OtherRow }
        \cup { ExpandedRow(l, a) : l \in Cells, a \in AddressCells(texts) }

\* A row with every cell and item present, and the given address text.
FullRow(text) ==
    RowElement(Cell(Element(CellText)),
               Cell2(Element(CellText), Element(CellText)),
               Cell2(Element(CellText), Element(CellText)),
               Cell(Element(CellText)), Cell(Element(CellText)),
               ExpandedRow(Cell(Element(CellText)), Cell(Element(text))))

\* The rows the extractor is run on: every shape of row with a sample
\* address, and the full row with every address of up to MaxAddrLen
\* characters.
ShapedRows ==
    { RowElement(d, b, p, f, c, x) :
        d \in Cells, b \in Cells2, p \in Cells2, f \in Cells, c \in Cells,
        x \in Siblings(SampleAddresses) }

AddressedRows == { FullRow(t) : t \in Texts(MaxAddrLen) }

\* The pages: one row of any kind, or a full row followed by a row with
\* nothing in it.
EmptyRow == RowElement(Absent, Absent, Absent, Absent, Absent, Absent)

PagesOfRows ==
    { << r >> : r \in ShapedRows \cup AddressedRows }
        \cup { << FullRow(t), EmptyRow >> : t \in SampleAddresses }
        \cup { << EmptyRow, FullRow(t) >> : t \in SampleAddresses }

\* A reader that defaults to the empty string (... || "").
TextOrEmpty(element) ==
    IF element.kind = "absent" THEN Str(<< >>)
    ELSE Str(TrimText(element.textContent))

\* element?.textContent?.trim() where element is the result of
\* querySelector on a cell that exists.
TextOf(element) ==
    IF element.kind = "absent" THEN Undefined
    ELSE Str(TrimText(element.textContent))

\* address.match(/#(\d+)-/): the leftmost "#" followed by one or more
\* digits and a hyphen; floorMatch[1] is the digits.
MatchAt(s, p, q) ==
    /\ s[p] = "#"
    /\ q > p + 1
    /\ \A k \in (p + 1) .. (q - 1) : s[k] \in Digits
    /\ s[q] = "-"

Matches(s) ==
    { pq \in (1 .. Len(s)) \X (1 .. Len(s)) : MatchAt(s, pq[1], pq[2]) }

FloorMatch(s) ==
    IF Matches(s) = {} THEN [found |-> FALSE, group |-> << >>]
    ELSE LET pq == CHOOSE m \in Matches(s) : \A o \in Matches(s) : m[1] <= o[1]
         IN [found |-> TRUE, group |-> SubSeq(s, pq[1] + 1, pq[2] - 1)]

\* The ten keys of a transaction, in the order the extractor assigns them.
FieldNames ==
    { "date", "bedrooms", "size", "price", "pricePerSqft", "floorLevel",
      "buildStatus", "lease", "address", "floor" }

\* expandedRow && expandedRow.classList.contains("table-row-expanded")
IsExpanded(r) == r.sibling.kind = "expanded"

\* The address as read inside if (addressItem), lines 262-265.
AddressOf(r) == TextOf(r.sibling.address.value)

\* Is transaction[key] assigned by the extractor's body for row r?
Assigns(r, key) ==
    CASE key = "date" -> r.date.kind # "absent"
      [] key \in {"bedrooms", "size"} -> r.bedroom.kind # "absent"
      [] key \in {"price", "pricePerSqft"} -> r.price.kind # "absent"
      [] key = "floorLevel" -> r.floorLevel.kind # "absent"
      [] key = "buildStatus" -> r.completed.kind # "absent"
      [] key = "lease" -> IsExpanded(r) /\ r.sibling.lease.kind # "absent"
      [] key = "address" -> IsExpanded(r) /\ r.sibling.address.kind # "absent"
      [] key = "floor" ->
            /\ IsExpanded(r)
            /\ r.sibling.address.kind # "absent"
            /\ AddressOf(r).kind = "string"
            /\ AddressOf(r).text # << >>
            /\ FloorMatch(AddressOf(r).text).found

\* The value it is assigned.
Assigned(r, key) ==
    CASE key = "date" -> TextOf(r.date.value)
      [] key = "bedrooms" -> TextOf(r.bedroom.main)
      [] key = "size" -> TextOf(r.bedroom.sub)
      [] key = "price" -> TextOf(r.price.main)
      [] key = "pricePerSqft" -> TextOf(r.price.sub)
      [] key = "floorLevel" -> TextOf(r.floorLevel.value)
      [] key = "buildStatus" -> TextOf(r.completed.value)
      [] key = "lease" -> TextOf(r.sibling.lease.value)
      [] key = "address" -> AddressOf(r)
      [] key = "floor" -> Str(FloorMatch(AddressOf(r).text).group)

\* The object `transaction` at transactions.push(transaction), line 276.
TransactionInPage(r) ==
    [key \in { k \in FieldNames : Assigns(r, k) } |-> Assigned(r, key)]

\* The value of page.evaluate is passed by value from the page to Node, as
\* JSON: a key whose value is undefined is not in the object that arrives.
Serialized(object) ==
    [key \in { k \in DOMAIN object : object[k].kind # "undefined" } |->
        object[key]]

\* const pageData = await page.evaluate(...), lines 190-280.
Extract(rs) ==
    [kind |-> "pageData",
     records |-> [k \in 1 .. Len(rs) |-> Serialized(TransactionInPage(rs[k]))]]


\* ------------------------------------------------------- values returned
NoResult == [kind |-> "none"]

\* the row extractor has not been run, and has returned nothing
NoRows == << >>
NoPageData == [kind |-> "none"]

\* A success result that reports the index of the last page turn (a count
\* that starts at 0).
SuccessResultFromZero(url, transactions, pages) ==
    [kind |-> "ok", url |-> url, totalTransactions |-> Len(transactions),
     totalPages |-> pages - 1, transactions |-> transactions]

\* return { url, scrapedAt, totalTransactions, totalPages, transactions },
\* lines 328-334 (scrapedAt, the time of the return, is left out).
SuccessResult(url, transactions, pages) ==
    [kind |-> "ok", url |-> url, totalTransactions |-> Len(transactions),
     totalPages |-> pages, transactions |-> transactions]

ErrorResult(url, message) ==
    [kind |-> "err", url |-> url, error |-> message, transactions |-> << >>]

Rejection(message) == [kind |-> "rejected", message |-> message]

\* crawlPriceHistory before it is called: no browser, no locals, no result.
CliIdle ==
    [pc |-> "idle", browser |-> "none", rootFound |-> "unknown",
     currentPage |-> 0, allTransactions |-> << >>, result |-> NoResult]

\* The two requests that are followed together.
Batches == {1, 2}

\* new Map(): no session is registered.
NoSessions == << >>

\* A request that has not arrived: no session id, nothing written to res.
BatchIdle == [pc |-> "idle", sessionId |-> -1, written |-> << >>, emitted |-> 0]

\* Outcome of a timed-out wait for ".price-history-table-root".
TableAbsentStatus == "error"

TableAbsentResult(url) == ErrorResult(url, "No price history table found")

\* A progress event: status, and the numbers its message carries.
Event(status, page, count) == [status |-> status, page |-> page, count |-> count]

\* The progress event of the controller's catch: message and error are both
\* error.message.
ErrorEvent(message) ==
    [status |-> "error", page |-> 0, count |-> 0, message |-> message,
     error |-> message]


\* An assignment that is off by one.
BrowserIndexShifted(urlIndex, nBrowsers) == (urlIndex + 1) % nBrowsers

\* this.browsers[urlIndex % this.browsers.length]
BrowserIndex(urlIndex, nBrowsers) == urlIndex % nBrowsers

\* while (hasNextPage): does the cycle go on to click the next control?
HasNext(status) == ~ (~ status.exists \/ ~ status.enabled)

\* A counter that is left alone when the idle wait timed out.
AfterClickIdleOnly(page, idle) == IF idle = "idle" THEN page + 1 ELSE page

\* currentPage++ after a click that did not throw; the idle wait's failure
\* is swallowed by .catch(() => {}).
AfterClick(page, idle) == page + 1


\* The page counter and the sequences that grow with every cycle (the
\* accumulator, the stream, the delivered events) as the model holds them:
\* exactly, up to CountCap pages and SeqCap elements, and as "at least that
\* many" beyond.  No table of Tables has CountCap pages and no crawl of one
\* writes SeqCap events, so that the caps are reached only on a table of
\* StuckTables.
CountCap == TableMaxPages + 1
SeqCap == MaxUrls * (MaxPages + 5) + CountCap * TableMaxRows + 5

Counted(n) == IF n > CountCap THEN CountCap ELSE n
Kept(seq) == IF Len(seq) > SeqCap THEN SubSeq(seq, 1, SeqCap) ELSE seq

\* An accumulator that skips the records it already holds.
AccumulateDistinct(acc, pageData) ==
    acc \o SelectSeq(pageData,
                     LAMBDA r : \A k \in 1 .. Len(acc) : acc[k] # r)

\* An accumulator that is overwritten by each page.
AccumulateLastPage(acc, pageData) == pageData

\* allTransactions = allTransactions.concat(pageData)
Accumulate(acc, pageData) == acc \o pageData


\* A launch loop that runs once too often (i <= this.concurrency).
MoreToLaunchInclusive(launched, c) == launched <= c

\* for (let i = 0; i < this.concurrency; i++): is another launch due?
MoreToLaunch(launched, c) == launched < c


\* A coordinator that stops waiting at the first rejection (Promise.all).
AllSettledOrOneRejected(st, n) ==
    \/ \A i \in 0 .. (n - 1) : st[i] \in {"fulfilled", "rejected"}
    \/ \E i \in 0 .. (n - 1) : st[i] = "rejected"

\* Promise.allSettled resolves when each of the n promises is settled.
AllSettled(st, n) ==
    \A i \in 0 .. (n - 1) : st[i] \in {"fulfilled", "rejected"}

\* One element of results.map in crawlMultipleUrls.
Entry(url, status, r) ==
    [url |-> url,
     success |-> (status = "fulfilled"),
     data |-> IF status = "fulfilled" THEN r ELSE Null,
     error |-> IF status = "rejected" THEN r.message ELSE NoMessage]


\* An aggregation that keeps the fulfilled outcomes only.
AggregateFulfilled(us, st, rt) ==
    SelectSeq([k \in 1 .. Len(us) |-> Entry(us[k], st[k - 1], rt[k - 1])],
              LAMBDA e : e.success)

\* Promise.allSettled(...) then results.map(...)
Aggregate(us, st, rt) ==
    [k \in 1 .. Len(us) |-> Entry(us[k], st[k - 1], rt[k - 1])]


\* A teardown that closes the first browser only.
CloseFirst(bs) == [b \in 1 .. Len(bs) |-> IF b = 1 THEN "closed" ELSE bs[b]]

\* The browsers this.browsers.map((browser) => browser.close()) closes.
CloseAll(bs) == [b \in 1 .. Len(bs) |-> "closed"]

Started == { i \in Indices : cpc[i] # "idle" }
Settled == { i \in Indices : cpc[i] \in {"fulfilled", "rejected"} }
N == Len(urls)
UrlOf(i) == Trim(urls[i + 1])
BrowserOpen(i) == browsers[tab[i].browser + 1] = "open"

\* ------------------------------------------------------------------ Init
Init ==
    /\ hpc = "idle"
    /\ httpStatus = 0
    /\ urls = << >>
    /\ optConcurrency = 0
    /\ concurrency = 0
    /\ activeCrawls = {}
    /\ stream = << >>
    /\ streamOpen = FALSE
    /\ browsers = << >>
    /\ results = << >>
    /\ cpc = [i \in Indices |-> "idle"]
    /\ tab = [i \in Indices |-> [state |-> "none", browser |-> -1]]
    /\ currentPage = [i \in Indices |-> 0]
    /\ allTransactions = [i \in Indices |-> << >>]
    /\ ret = [i \in Indices |-> NoResult]
    /\ progress = [i \in Indices |-> << >>]
    /\ rootFound = [i \in Indices |-> "unknown"]
    /\ site = [i \in Indices |-> << >>]
    /\ reqKind = "none"
    /\ rowElements = NoRows
    /\ extracted = NoPageData
    /\ cli = CliIdle
    /\ now = 0
    /\ registry = NoSessions
    /\ batch = [b \in Batches |-> BatchIdle]

\* ------------------------------------------------------- emitProgress
\* An emitter that writes whether or not the session is registered.
EmitProgressAlways(i, ev) ==
    /\ stream' = Append(stream, "progress")
    /\ progress' = [progress EXCEPT ![i] = Append(@, ev)]

\* activeCrawls.get(sessionId); if (session && session.res) session.res.write
EmitProgress(i, ev) ==
    IF SessionId \in activeCrawls
    THEN /\ stream' = Kept(Append(stream, "progress"))
         /\ progress' = [progress EXCEPT ![i] = Kept(Append(@, ev))]
    ELSE UNCHANGED << stream, progress >>



\* ------------------------------------------------- POST /crawl handler
\* Lines 390-416, up to the first await inside initBrowsers: the request is
\* rejected with 400, or the stream is opened, the session registered and
\* the crawler constructed.
Receive(maxUrls, concOptions) ==
    /\ hpc = "idle"
    /\ \E kind \in {"missing", "notArray", "list"}, opt \in concOptions :
       \E list \in IF kind = "list"
                   THEN { l \in UrlLists : Len(l) <= maxUrls } ELSE { << >> } :
          /\ reqKind' = kind
          /\ IF RejectsRequest(kind, list)
             THEN /\ httpStatus' = 400
                  /\ hpc' = "rejected"
                  /\ UNCHANGED << urls, optConcurrency, concurrency,
                                  activeCrawls, streamOpen >>
             ELSE /\ httpStatus' = 200
                  /\ streamOpen' = TRUE
                  /\ urls' = list
                  /\ optConcurrency' = opt
                  /\ activeCrawls' = activeCrawls \cup {SessionId}
                  /\ concurrency' = EffectiveConcurrency(EffectiveConcurrency(opt))
                  /\ hpc' = "init"
    /\ UNCHANGED << stream, browsers, results, urlState >>
    /\ UNCHANGED otherState

\* A failure path that ends the response and leaves the session registered.
HandlerFailsKeepsSession ==
    /\ stream' = Append(stream, "error")
    /\ activeCrawls' = activeCrawls
    /\ streamOpen' = FALSE
    /\ hpc' = "ended"

\* The handler's catch and finally: the error event is written, the session
\* deleted and the response ended.
HandlerFails ==
    /\ stream' = Append(stream, "error")
    /\ activeCrawls' = activeCrawls \ {SessionId}
    /\ streamOpen' = FALSE
    /\ hpc' = "ended"

\* initBrowsers: one puppeteer.launch resolves and the browser is pushed.
LaunchBrowser ==
    /\ hpc = "init"
    /\ MoreToLaunch(Len(browsers), concurrency)
    /\ browsers' = Append(browsers, "open")
    /\ hpc' = IF MoreToLaunch(Len(browsers'), concurrency)
              THEN "init" ELSE "start"
    /\ UNCHANGED << httpStatus, reqKind, urls, optConcurrency, concurrency,
                    activeCrawls, stream, streamOpen, results, urlState >>
    /\ UNCHANGED otherState

\* initBrowsers: one puppeteer.launch rejects.  The await of initBrowsers is
\* outside the try of crawlMultipleUrls, so its finally does not run: the
\* rejection goes straight to the handler's catch.
LaunchFails ==
    /\ hpc = "init"
    /\ MoreToLaunch(Len(browsers), concurrency)
    /\ HandlerFails
    /\ UNCHANGED << httpStatus, reqKind, urls, optConcurrency, concurrency, browsers,
                    results, urlState >>
    /\ UNCHANGED otherState

\* The index at which urls.map throws (url.trim is not a function), or N
\* when every element is a string.
FirstNonString(us) ==
    IF \E k \in 1 .. Len(us) : ~ IsString(us[k])
    THEN (CHOOSE k \in 1 .. Len(us) :
             /\ ~ IsString(us[k])
             /\ \A j \in 1 .. (k - 1) : IsString(us[j])) - 1
    ELSE Len(us)

\* urls.map((url, index) => this.crawlPropertyGuru(url.trim(), ...)): each
\* call runs to its first await (browser.newPage()) before the next starts.
StartControllers ==
    /\ hpc = "start"
    /\ LET m == FirstNonString(urls)
       IN /\ cpc' = [i \in Indices |-> IF i < m THEN "newPage" ELSE cpc[i]]
          /\ tab' = [i \in Indices |->
                        IF i < m
                        THEN [state |-> "requested",
                              browser |-> BrowserIndex(i, Len(browsers))]
                        ELSE tab[i]]
          /\ hpc' = IF m < N THEN "threw" ELSE "crawl"
    /\ UNCHANGED << httpStatus, reqKind, urls, optConcurrency, concurrency,
                    activeCrawls, stream, streamOpen, browsers, results,
                    currentPage, allTransactions, ret, progress, rootFound,
                    site >>
    /\ UNCHANGED otherState

\* Promise.allSettled resolves once every controller has settled; the
\* results are mapped and returned, which enters the finally.
AggregateResults ==
    /\ hpc = "crawl"
    /\ AllSettled(cpc, N)
    /\ results' = Aggregate(urls, cpc, ret)
    /\ hpc' = "returned"
    /\ UNCHANGED << httpStatus, reqKind, urls, optConcurrency, concurrency,
                    activeCrawls, stream, streamOpen, browsers, urlState >>
    /\ UNCHANGED otherState

\* finally of crawlMultipleUrls after a return: every browser is closed and
\* the handler goes on with the results.
CloseBrowsers ==
    /\ hpc = "returned"
    /\ browsers' = CloseAll(browsers)
    /\ hpc' = "respond"
    /\ UNCHANGED << httpStatus, reqKind, urls, optConcurrency, concurrency,
                    activeCrawls, stream, streamOpen, results, urlState >>
    /\ UNCHANGED otherState

\* finally of crawlMultipleUrls after urls.map threw: every browser is
\* closed and the exception reaches the handler's catch.
CloseBrowsersAfterThrow ==
    /\ hpc = "threw"
    /\ browsers' = CloseAll(browsers)
    /\ HandlerFails
    /\ UNCHANGED << httpStatus, reqKind, urls, optConcurrency, concurrency, results,
                    urlState >>
    /\ UNCHANGED otherState

\* res.write of the "complete" event; the save of the results is pending.
SendComplete ==
    /\ hpc = "respond"
    /\ stream' = Append(stream, "complete")
    /\ hpc' = "persist"
    /\ UNCHANGED << httpStatus, reqKind, urls, optConcurrency, concurrency,
                    activeCrawls, streamOpen, browsers, results, urlState >>
    /\ UNCHANGED otherState

\* fs.mkdir and fs.writeFile resolve: the "saved" event, then the finally.
PersistOk ==
    /\ hpc = "persist"
    /\ stream' = Append(stream, "saved")
    /\ activeCrawls' = activeCrawls \ {SessionId}
    /\ streamOpen' = FALSE
    /\ hpc' = "ended"
    /\ UNCHANGED << httpStatus, reqKind, urls, optConcurrency, concurrency, browsers,
                    results, urlState >>
    /\ UNCHANGED otherState

\* fs.mkdir or fs.writeFile rejects: the catch, then the finally.
PersistFails ==
    /\ hpc = "persist"
    /\ HandlerFails
    /\ UNCHANGED << httpStatus, reqKind, urls, optConcurrency, concurrency, browsers,
                    results, urlState >>
    /\ UNCHANGED otherState


\* ------------------------------------------------ crawlPropertyGuru
\* finally { await page.close() }, lines 350-352, after the body produced
\* `value`: the promise is fulfilled with the value, or rejected when the
\* close throws.  The block's locals go out of scope.
Settle(i, value) ==
    /\ \/ /\ BrowserOpen(i)
          /\ tab' = [tab EXCEPT ![i].state = "closed"]
          /\ cpc' = [cpc EXCEPT ![i] = "fulfilled"]
          /\ ret' = [ret EXCEPT ![i] = value]
       \/ /\ cpc' = [cpc EXCEPT ![i] = "rejected"]
          /\ ret' = [ret EXCEPT ![i] = Rejection("close failed")]
          /\ UNCHANGED tab
    /\ currentPage' = [currentPage EXCEPT ![i] = 0]
    /\ allTransactions' = [allTransactions EXCEPT ![i] = << >>]

\* A catch that returns the rows accumulated before the error.
FatalKeepsRows(i, message) ==
    /\ EmitProgress(i, ErrorEvent(message))
    /\ Settle(i, [ErrorResult(UrlOf(i), message)
                     EXCEPT !.transactions = allTransactions[i]])

\* catch (error), lines 335-349: the error progress event and the error
\* variant, then the finally.
Fatal(i, message) ==
    /\ EmitProgress(i, ErrorEvent(message))
    /\ Settle(i, ErrorResult(UrlOf(i), message))

\* The wait for the table root timed out, lines 128-138.
TableAbsent(i) ==
    /\ EmitProgress(i, Event(TableAbsentStatus, 0, 0))
    /\ Settle(i, TableAbsentResult(UrlOf(i)))

\* The loop is left (break, or hasNextPage = false), lines 320-334: the
\* completed event and the success result, then the finally.
Finish(i) ==
    /\ EmitProgress(i, Event("completed", 0, Len(allTransactions[i])))
    /\ Settle(i, SuccessResult(UrlOf(i), allTransactions[i], currentPage[i]))


\* A click failure that is counted as a page turn (currentPage++ placed
\* before the click).
ClickThrowsCounted(i) ==
    /\ EmitProgress(i, Event("completed", 0, Len(allTransactions[i])))
    /\ Settle(i, SuccessResult(UrlOf(i), allTransactions[i],
                               currentPage[i] + 1))

\* A click failure that is escalated to the URL's error.
ClickThrowsFatal(i) == Fatal(i, "click failed")

\* catch (error) { hasNextPage = false; }, lines 314-316: the loop condition
\* fails and the loop is left.
ClickThrows(i) == Finish(i)

\* A row wait whose timeout is escalated to the URL's error.
RowWaitFatal(i) == Fatal(i, "row wait timed out")

\* catch (err) { break; }, lines 164-168: the wait for ".table-row-collapsed"
\* threw and the loop is left.
RowWaitTimesOut(i) == Finish(i)

\* await browser.newPage(), line 84, outside the try: a rejection rejects
\* the controller's promise; otherwise the "starting" event is emitted.
NewPage(i) ==
    /\ cpc[i] = "newPage"
    /\ \/ /\ BrowserOpen(i)
          /\ tab' = [tab EXCEPT ![i].state = "open"]
          /\ EmitProgress(i, Event("starting", 0, 0))
          /\ cpc' = [cpc EXCEPT ![i] = "nav"]
          /\ UNCHANGED ret
       \/ /\ tab' = [tab EXCEPT ![i].state = "none"]
          /\ ret' = [ret EXCEPT ![i] = Rejection("newPage failed")]
          /\ cpc' = [cpc EXCEPT ![i] = "rejected"]
          /\ UNCHANGED << stream, progress >>
    /\ UNCHANGED << handlerState, currentPage, allTransactions, rootFound,
                    site >>
    /\ UNCHANGED otherState

\* setUserAgent, evaluateOnNewDocument and page.goto, lines 96-117.
Navigate(i) ==
    /\ cpc[i] = "nav"
    /\ \/ /\ BrowserOpen(i)
          /\ EmitProgress(i, Event("loading", 0, 0))
          /\ cpc' = [cpc EXCEPT ![i] = "probe"]
          /\ UNCHANGED << ret, tab, currentPage, allTransactions >>
       \/ Fatal(i, "navigation failed")
    /\ UNCHANGED << handlerState, rootFound, site >>
    /\ UNCHANGED otherState

\* The scroll evaluation and the bounded wait for the table root, lines
\* 120-138.
ProbeTable(i) ==
    /\ cpc[i] = "probe"
    /\ \/ /\ BrowserOpen(i)
          /\ rootFound' = [rootFound EXCEPT ![i] = "yes"]
          /\ cpc' = [cpc EXCEPT ![i] = "filters"]
          /\ UNCHANGED << stream, progress, ret, tab, currentPage,
                          allTransactions >>
       \/ /\ Fatal(i, "evaluation failed")
          /\ UNCHANGED rootFound
       \/ /\ rootFound' = [rootFound EXCEPT ![i] = "no"]
          /\ TableAbsent(i)
    /\ UNCHANGED << handlerState, site >>
    /\ UNCHANGED otherState

\* The filter-removal evaluation, the "scraping" event and the loop's
\* initial values, lines 141-160.
ClearFilters(i) ==
    /\ cpc[i] = "filters"
    /\ \/ /\ BrowserOpen(i)
          /\ EmitProgress(i, Event("scraping", 0, 0))
          /\ allTransactions' = [allTransactions EXCEPT ![i] = << >>]
          /\ currentPage' = [currentPage EXCEPT ![i] = 1]
          /\ cpc' = [cpc EXCEPT ![i] = "scrape"]
          /\ UNCHANGED << ret, tab >>
       \/ Fatal(i, "evaluation failed")
    /\ UNCHANGED << handlerState, rootFound, site >>
    /\ UNCHANGED otherState

\* One cycle up to the extraction, lines 162-290: the bounded wait for row
\* elements (a timeout leaves the loop), the expansion, the row extractor,
\* the append to the accumulator and the "scraping" event.
ScrapePage(i) ==
    /\ cpc[i] = "scrape"
    /\ \/ \E n \in RowChoices(i) :
             IF n = 0
             THEN RowWaitTimesOut(i)
             ELSE /\ BrowserOpen(i)
                  /\ allTransactions' =
                        [allTransactions EXCEPT
                            ![i] = Kept(Accumulate(@, PageData(ShownIndex(i),
                                                               n)))]
                  /\ EmitProgress(i, Event("scraping", currentPage[i], 0))
                  /\ cpc' = [cpc EXCEPT ![i] = "next"]
                  /\ UNCHANGED << ret, tab, currentPage >>
       \/ /\ ~ BrowserOpen(i)
          /\ RowWaitTimesOut(i)
       \/ /\ \E n \in RowChoices(i) : n > 0
          /\ Fatal(i, "evaluation failed")
    /\ UNCHANGED << handlerState, rootFound, site >>
    /\ UNCHANGED otherState

\* The evaluation of the next control and the loop condition, lines 293-308.
CheckNext(i) ==
    /\ cpc[i] = "next"
    /\ \/ /\ BrowserOpen(i)
          /\ \E status \in NextChoices(i) :
                IF HasNext(status)
                THEN /\ cpc' = [cpc EXCEPT ![i] = "click"]
                     /\ UNCHANGED << stream, progress, ret, tab, currentPage,
                                     allTransactions >>
                ELSE Finish(i)
       \/ Fatal(i, "evaluation failed")
    /\ UNCHANGED << handlerState, rootFound, site >>
    /\ UNCHANGED otherState

\* The click, the settle pause and the idle wait, lines 309-317: a click
\* that throws ends the loop.
ClickNext(i) ==
    /\ cpc[i] = "click"
    /\ \/ /\ BrowserOpen(i)
          /\ "ok" \in ClickChoices(i)
          /\ \E idle \in IdleChoices(i) :
                currentPage' =
                    [currentPage EXCEPT ![i] = Counted(AfterClick(@, idle))]
          /\ cpc' = [cpc EXCEPT ![i] = "scrape"]
          /\ UNCHANGED << stream, progress, ret, tab, allTransactions >>
       \/ /\ "throw" \in ClickChoices(i) \/ ~ BrowserOpen(i)
          /\ ClickThrows(i)
    /\ UNCHANGED << handlerState, rootFound, site >>
    /\ UNCHANGED otherState

Controller(i) ==
    \/ NewPage(i)
    \/ Navigate(i)
    \/ ProbeTable(i)
    \/ ClearFilters(i)
    \/ ScrapePage(i)
    \/ CheckNext(i)
    \/ ClickNext(i)

Handler(maxUrls, concOptions) ==
    \/ Receive(maxUrls, concOptions)
    \/ LaunchBrowser
    \/ LaunchFails
    \/ StartControllers
    \/ AggregateResults
    \/ CloseBrowsers
    \/ CloseBrowsersAfterThrow
    \/ SendComplete
    \/ PersistOk
    \/ PersistFails

Next ==
    \/ Handler(MaxUrls, ConcurrencyOptions)
    \/ \E i \in Indices : Controller(i)

Spec == Init /\ [][Next]_vars

\* ------------------------------------------- one URL against a fixed table
\* The batch is a single URL with the default options, and its site serves
\* one table of Tables for the whole crawl.
InitTable ==
    /\ Init!1 /\ Init!2 /\ Init!3 /\ Init!4 /\ Init!5 /\ Init!6 /\ Init!7
    /\ Init!8 /\ Init!9 /\ Init!10 /\ Init!11 /\ Init!12 /\ Init!13
    /\ Init!14 /\ Init!15 /\ Init!16 /\ Init!17
    /\ Init!19 /\ Init!20 /\ Init!21
    /\ Init!22 /\ Init!23 /\ Init!24 /\ Init!25
    /\ \E t \in Tables : site = [i \in Indices |-> IF i = 0 THEN t ELSE << >>]

NextTable ==
    \/ Handler(1, {0})
    \/ \E i \in Indices : Controller(i)

SpecTable == InitTable /\ [][NextTable]_vars

\* -------------------------- one URL against a table that may have no end
\* As SpecTable, with the tables of StuckTables too; every continuation that
\* is ready is run by the event loop, hence the weak fairness of the handler
\* and of each controller.
InitEndless ==
    /\ Init!1 /\ Init!2 /\ Init!3 /\ Init!4 /\ Init!5 /\ Init!6 /\ Init!7
    /\ Init!8 /\ Init!9 /\ Init!10 /\ Init!11 /\ Init!12 /\ Init!13
    /\ Init!14 /\ Init!15 /\ Init!16 /\ Init!17
    /\ Init!19 /\ Init!20 /\ Init!21
    /\ Init!22 /\ Init!23 /\ Init!24 /\ Init!25
    /\ \E t \in Tables \cup StuckTables :
          site = [i \in Indices |-> IF i = 0 THEN t ELSE << >>]

SpecEndless ==
    /\ InitEndless
    /\ [][NextTable]_vars
    /\ WF_vars(Handler(1, {0}))
    /\ \A i \in Indices : WF_vars(Controller(i))

\* ------------------------------------------------ the row extractor alone
\* The extractor is run once on a page of rows.
InitExtract ==
    /\ Init!1 /\ Init!2 /\ Init!3 /\ Init!4 /\ Init!5 /\ Init!6 /\ Init!7
    /\ Init!8 /\ Init!9 /\ Init!10 /\ Init!11 /\ Init!12 /\ Init!13
    /\ Init!14 /\ Init!15 /\ Init!16 /\ Init!17 /\ Init!18 /\ Init!19
    /\ rowElements \in PagesOfRows
    /\ extracted = NoPageData
    /\ Init!22 /\ Init!23 /\ Init!24 /\ Init!25

ExtractPage ==
    /\ extracted.kind = "none"
    /\ extracted' = Extract(rowElements)
    /\ UNCHANGED << handlerState, stream, urlState, rowElements, cli,
                    sessionState >>

NextExtract == ExtractPage

SpecExtract == InitExtract /\ [][NextExtract]_vars

\* ------------------------------------ the command-line crawler (crawler.js)
\* crawlPriceHistory(url, outputFile, headless) is run on the URL of index 0,
\* whose site serves the table site[0].

\* The object written to the output file, lines 263-269 (scrapedAt, the time
\* of the run, is left out).
CliResult(url, transactions, pages) ==
    [kind |-> "saved", url |-> url, totalTransactions |-> Len(transactions),
     totalPages |-> pages, transactions |-> transactions]

\* The page of the table shown when the CLI's page counter is cli.currentPage.
CliShown ==
    site[0][IF cli.currentPage > Len(site[0]) THEN Len(site[0])
                                              ELSE cli.currentPage]

\* finally { if (browser) await browser.close() }, lines 295-299, entered
\* at position `pc` with the file content `result`; the locals go out of
\* scope.  A close that rejects rejects the call.
CliLeave(pc, root, result) ==
    \E closed \in IF cli.browser = "open" THEN {TRUE, FALSE} ELSE {TRUE} :
        cli' = [pc |-> IF closed THEN pc ELSE "threw",
                browser |-> IF cli.browser = "open" /\ closed THEN "closed"
                                                              ELSE cli.browser,
                rootFound |-> root,
                currentPage |-> 0,
                allTransactions |-> << >>,
                result |-> result]

\* catch (error) { throw error }, lines 292-294, then the finally.
CliThrows == CliLeave("threw", cli.rootFound, cli.result)

\* puppeteer.launch and browser.newPage, lines 16-25: a launch that rejects
\* leaves no browser to close.
CliLaunch ==
    /\ cli.pc = "idle"
    /\ \/ cli' = [cli EXCEPT !.pc = "nav", !.browser = "open"]
       \/ CliThrows
    /\ UNCHANGED << handlerState, stream, urlState, extractState,
                    sessionState >>

\* setUserAgent, evaluateOnNewDocument, page.goto and the scroll, lines 27-42.
CliNavigate ==
    /\ cli.pc = "nav"
    /\ \/ cli' = [cli EXCEPT !.pc = "probe"]
       \/ CliThrows
    /\ UNCHANGED << handlerState, stream, urlState, extractState,
                    sessionState >>

\* The bounded wait for the table root, lines 45-53: a timeout returns
\* without a value and nothing is written.
CliProbe ==
    /\ cli.pc = "probe"
    /\ \/ cli' = [cli EXCEPT !.pc = "filters", !.rootFound = "yes"]
       \/ CliLeave("exited", "no", cli.result)
    /\ UNCHANGED << handlerState, stream, urlState, extractState,
                    sessionState >>

\* The filter-removal evaluation and the one bounded wait for row elements,
\* lines 57-88, made before the loop: a timeout returns without a value;
\* otherwise the loop's locals get their initial values.
CliClearFilters ==
    /\ cli.pc = "filters"
    /\ \/ IF site[0][1].rows = 0
          THEN CliLeave("exited", cli.rootFound, cli.result)
          ELSE cli' = [cli EXCEPT !.pc = "scrape", !.currentPage = 1,
                                  !.allTransactions = << >>]
       \/ CliThrows
    /\ UNCHANGED << handlerState, stream, urlState, extractState,
                    sessionState >>

\* One cycle up to the append, lines 90-217: the pause, the expansion, the
\* row extractor and the concat.  No wait for row elements is made here.
CliScrapePage ==
    /\ cli.pc = "scrape"
    /\ \/ cli' = [cli EXCEPT
                    !.pc = "next",
                    !.allTransactions =
                        Accumulate(@, PageData(cli.currentPage,
                                               CliShown.rows))]
       \/ CliThrows
    /\ UNCHANGED << handlerState, stream, urlState, extractState,
                    sessionState >>

\* The evaluation of the next control and the branch on it, lines 220-238.
CliCheckNext ==
    /\ cli.pc = "next"
    /\ \/ cli' = [cli EXCEPT !.pc = IF HasNext(CliShown.next) THEN "click"
                                                              ELSE "save"]
       \/ CliThrows
    /\ UNCHANGED << handlerState, stream, urlState, extractState,
                    sessionState >>

\* The click, the pause and the idle wait, lines 241-257: currentPage++
\* after a click that did not throw; a click that throws ends the loop.
CliClickNext ==
    /\ cli.pc = "click"
    /\ cli' = IF CliShown.click = "ok"
              THEN [cli EXCEPT !.pc = "scrape",
                               !.currentPage = AfterClick(@, CliShown.idle)]
              ELSE [cli EXCEPT !.pc = "save"]
    /\ UNCHANGED << handlerState, stream, urlState, extractState,
                    sessionState >>

\* The result object and fs.writeFile, lines 263-271, then the finally.
CliSave ==
    /\ cli.pc = "save"
    /\ \/ CliLeave("done", cli.rootFound,
                   CliResult(Url(0, "trimmed"), cli.allTransactions,
                             cli.currentPage))
       \/ CliThrows
    /\ UNCHANGED << handlerState, stream, urlState, extractState,
                    sessionState >>

Cli ==
    \/ CliLaunch
    \/ CliNavigate
    \/ CliProbe
    \/ CliClearFilters
    \/ CliScrapePage
    \/ CliCheckNext
    \/ CliClickNext
    \/ CliSave

\* ------------------------------ the batch and the CLI against one table
\* Both programs are run on the same URL, whose site serves one table of
\* Tables.  They share nothing but the site, so the order of their steps
\* does not matter: the CLI is run once the batch request has ended.
NextCli ==
    \/ NextTable
    \/ hpc \in {"ended", "rejected"} /\ Cli

SpecCli == InitTable /\ [][NextCli]_vars

\* --------------------------------------- two batch requests, one registry
\* Two requests that pass the validation are followed through the handler,
\* with the registry they share and the clock their session ids are read
\* from.  The crawl of each is reduced to the progress events it emits.

\* Map.prototype.set and Map.prototype.delete on the registry.
Put(map, key, value) ==
    [k \in DOMAIN map \cup {key} |-> IF k = key THEN value ELSE map[k]]

Remove(map, key) == [k \in DOMAIN map \ {key} |-> map[k]]

\* An event as it arrives on a response: its type and the request whose
\* handler or crawler wrote it.
Written(type, b) == [type |-> type, from |-> b]

\* The value of Date.now() grows by a millisecond.
Tick ==
    /\ now < MaxClock
    /\ now' = now + 1
    /\ UNCHANGED << registry, batch >>
    /\ UNCHANGED << handlerState, stream, urlState, extractState, cli >>

\* Lines 397-416 for request b: the session id is the clock's value and the
\* entry { res, startTime } is stored under it.
Accept(b) ==
    /\ batch[b].pc = "idle"
    /\ registry' = Put(registry, now, [res |-> b, startTime |-> now])
    /\ batch' = [batch EXCEPT ![b].pc = "crawling", ![b].sessionId = now]
    /\ UNCHANGED now
    /\ UNCHANGED << handlerState, stream, urlState, extractState, cli >>

\* emitProgress(sessionId, data), lines 355-360, called by the crawler of
\* request b: the event is written to the res of the entry found under the
\* session id, if there is one.
Report(b) ==
    /\ batch[b].pc = "crawling"
    /\ batch[b].emitted < MaxEvents
    /\ LET id == batch[b].sessionId
       IN batch' =
             [c \in Batches |->
                 [batch[c] EXCEPT
                     !.emitted = IF c = b THEN @ + 1 ELSE @,
                     !.written =
                         IF id \in DOMAIN registry /\ registry[id].res = c
                         THEN Append(@, Written("progress", b))
                         ELSE @]]
    /\ UNCHANGED << now, registry >>
    /\ UNCHANGED << handlerState, stream, urlState, extractState, cli >>

\* catch and finally of the handler of request b, lines 454-464: the error
\* event, the delete of the session id and res.end().
Abort(b) ==
    /\ batch' = [batch EXCEPT ![b].pc = "ended",
                              ![b].written = Append(@, Written("error", b))]
    /\ registry' = Remove(registry, batch[b].sessionId)

\* Lines 419-429: crawlMultipleUrls has returned and the "complete" event is
\* written with Date.now() - activeCrawls.get(sessionId).startTime, which
\* throws a TypeError when no entry is found; or crawlMultipleUrls threw.
Complete(b) ==
    /\ batch[b].pc = "crawling"
    /\ \/ IF batch[b].sessionId \in DOMAIN registry
          THEN /\ batch' = [batch EXCEPT
                              ![b].pc = "persist",
                              ![b].written = Append(@, Written("complete", b))]
               /\ UNCHANGED registry
          ELSE Abort(b)
       \/ Abort(b)
    /\ UNCHANGED now
    /\ UNCHANGED << handlerState, stream, urlState, extractState, cli >>

\* Lines 431-464: the results are saved and the "saved" event written, or
\* the save throws; then the finally.
Save(b) ==
    /\ batch[b].pc = "persist"
    /\ \/ /\ batch' = [batch EXCEPT
                          ![b].pc = "ended",
                          ![b].written = Append(@, Written("saved", b))]
          /\ registry' = Remove(registry, batch[b].sessionId)
       \/ Abort(b)
    /\ UNCHANGED now
    /\ UNCHANGED << handlerState, stream, urlState, extractState, cli >>

NextSessions ==
    \/ Tick
    \/ \E b \in Batches : Accept(b) \/ Report(b) \/ Complete(b) \/ Save(b)

SpecSessions == Init /\ [][NextSessions]_vars


\* ================================================================ claims
\* crawlMultipleUrls has returned its results.
Returned ==
    \/ hpc \in {"returned", "respond", "persist"}
    \/ hpc = "ended" /\ results # << >>

\* crawlMultipleUrls has returned or thrown and its finally has run.
Left == hpc \in {"respond", "persist", "ended"}

\* The concurrency budget of the accepted request.
Budget == IF optConcurrency = 0 THEN DefaultConcurrency ELSE optConcurrency

\* The messages of the fatal-per-URL failures (navigation, page evaluation).
FatalMessages == {"navigation failed", "evaluation failed"}

\* Controller k ended in failure: rejected, or returned the error variant.
FailedUrl(k) ==
    \/ cpc[k] = "rejected"
    \/ cpc[k] = "fulfilled" /\ ret[k].kind = "err"

\* The state of the controller of URL j.
ControllerState(j) ==
    << cpc[j], tab[j], currentPage[j], allTransactions[j], ret[j], progress[j],
       rootFound[j] >>

ControllerStateNext(j) ==
    << cpc'[j], tab'[j], currentPage'[j], allTransactions'[j], ret'[j],
       progress'[j], rootFound'[j] >>

\* The rows of pages 1..k of table t, in page order and then row order.
RECURSIVE TableRows(_, _)
TableRows(t, k) ==
    IF k = 0 THEN << >> ELSE TableRows(t, k - 1) \o PageData(k, t[k].rows)

\* ---- C1
\* C1: failure isolation.  A step of URL k's controller, a failing one
\* included, changes nothing of any other URL's controller and leaves the
\* coordinator, the browsers and the registry as they are (the batch is not
\* aborted); and when crawlMultipleUrls returns, every URL has reached its
\* own terminal state and a URL that succeeded is reported with exactly the
\* transactions and totalPages its own controller returned, whatever the
\* other URLs did.
IsolationStep ==
    \A k \in Indices :
        (cpc[k] # "idle" /\ cpc'[k] # cpc[k]) =>
            /\ \A j \in Indices \ {k} :
                  ControllerStateNext(j) = ControllerState(j)
            /\ UNCHANGED handlerState

IsolationAtReturn ==
    Returned =>
        /\ Len(results) = N
        /\ \A j \in 0 .. (N - 1) :
              /\ cpc[j] \in {"fulfilled", "rejected"}
              /\ (cpc[j] = "fulfilled" /\ ret[j].kind = "ok") =>
                    /\ results[j + 1].success
                    /\ results[j + 1].data.transactions = ret[j].transactions
                    /\ results[j + 1].data.totalPages = ret[j].totalPages

FailureIsolation == [] IsolationAtReturn /\ [][IsolationStep]_vars

\* The navigation of one URL threw and another URL completed with rows, and
\* the batch returned both.
FailureIsolationWitness ==
    /\ Returned
    /\ \E k, j \in 0 .. (N - 1) :
          /\ k # j
          /\ cpc[k] = "fulfilled"
          /\ ret[k].kind = "err"
          /\ ret[k].error = "navigation failed"
          /\ cpc[j] = "fulfilled"
          /\ ret[j].kind = "ok"
          /\ ret[j].totalTransactions > 0
          /\ results[j + 1].success

\* ---- C2
\* C2: in the batch result, the entry of a URL whose controller failed
\* fatally (navigation or page evaluation threw) has success = false and
\* carries the captured message, and the entry of a URL whose controller
\* completed has success = true.
FatalMarkedFailed ==
    Returned =>
        \A i \in 0 .. (N - 1) :
            /\ (/\ cpc[i] = "fulfilled"
                /\ ret[i].kind = "err"
                /\ ret[i].error \in FatalMessages) =>
                    /\ results[i + 1].success = FALSE
                    /\ results[i + 1].error = ret[i].error
            /\ (cpc[i] = "fulfilled" /\ ret[i].kind = "ok") =>
                    results[i + 1].success = TRUE

\* ---- C3
\* C3: crawlMultipleUrls returns exactly N outcomes, and the outcome at
\* position i is that of the input URL at position i: it names that URL
\* and holds what that URL's controller returned, or the reason it rejected
\* with, in whatever order the controllers finished.
OutcomesInInputOrder ==
    Returned =>
        /\ Len(results) = N
        /\ \A i \in 0 .. (N - 1) :
              LET e == results[i + 1]
              IN /\ e.url = urls[i + 1]
                 /\ e.url.id = i
                 /\ cpc[i] = "fulfilled" =>
                       /\ e.success
                       /\ e.data = ret[i]
                       /\ e.data.url = Trim(urls[i + 1])
                       /\ e.error = NoMessage
                 /\ cpc[i] = "rejected" =>
                       /\ ~ e.success
                       /\ e.data = Null
                       /\ e.error = ret[i].message

\* Two URLs, the first rejected and the second completed: both are reported,
\* each at its own position.
OutcomesInInputOrderWitness ==
    /\ Returned
    /\ N = 2
    /\ cpc[0] = "rejected"
    /\ cpc[1] = "fulfilled"
    /\ ret[1].kind = "ok"
    /\ ~ results[1].success
    /\ results[2].success

\* ---- C4
\* C4: once initBrowsers has provisioned the browsers, every one of them is
\* closed when crawlMultipleUrls has returned or thrown, whether the URLs
\* succeeded or failed or building the per-URL calls threw.
TeardownGuaranteed ==
    (Left /\ Len(browsers) = concurrency) =>
        \A b \in 1 .. Len(browsers) : browsers[b] = "closed"

\* urls.map threw (an element is no string) after several browsers were
\* provisioned, and the batch has ended.
TeardownGuaranteedWitness ==
    /\ hpc = "ended"
    /\ results = << >>
    /\ Len(browsers) = concurrency
    /\ Len(browsers) >= 2
    /\ \A b \in 1 .. Len(browsers) : browsers[b] = "closed"

\* ---- C5
\* C5: when the launch of a browser fails during provisioning, the batch
\* ends with an error event on the stream and every browser launched before
\* it is closed.
LaunchFailureLeavesNoBrowser ==
    (hpc = "ended" /\ Len(browsers) < concurrency) =>
        /\ Len(stream) > 0
        /\ stream[Len(stream)] = "error"
        /\ \A b \in 1 .. Len(browsers) : browsers[b] = "closed"

\* ---- C6
\* C6: at most C browsers are ever provisioned, C being the request's
\* concurrency option or 3 when it is omitted; exactly C are provisioned
\* before any URL's controller is started, and that number stays as it is
\* for the rest of the batch.
ProvisionedExactlyBudget ==
    /\ Len(browsers) <= Budget
    /\ (\/ Started # {}
        \/ hpc \in {"start", "crawl", "threw", "returned", "respond", "persist"})
          => Len(browsers) = Budget

\* More URLs than browsers: both controllers run on the single browser.
ProvisionedExactlyBudgetWitness ==
    /\ N = 2
    /\ Budget = 1
    /\ Len(browsers) = 1
    /\ Started = {0, 1}

\* ---- C7
\* C7: the controller of the URL at index i opens its tab on browser
\* i mod C, which is one of the provisioned browsers, and the numbers of
\* URLs assigned to two browsers differ by at most one.
AssignedTo(b) == { i \in Started : tab[i].browser = b }

RoundRobin ==
    /\ \A i \in Started :
          /\ tab[i].browser = i % Budget
          /\ tab[i].browser \in 0 .. (Len(browsers) - 1)
    /\ \A b1, b2 \in 0 .. (Budget - 1) :
          Cardinality(AssignedTo(b1)) - Cardinality(AssignedTo(b2)) <= 1

\* Two URLs on two browsers: both tabs are open, one on each browser.
RoundRobinWitness ==
    /\ N = 2
    /\ Budget = 2
    /\ tab[0] = [state |-> "open", browser |-> 0]
    /\ tab[1] = [state |-> "open", browser |-> 1]

\* ---- C8
\* C8 (as stated): for a table of k pages with the next control enabled on
\* pages 1..k-1 and disabled or absent on page k, and every click
\* succeeding, the controller returns the rows of all k pages, each page
\* once and in order, and totalPages = k.
AllClicksSucceed(t) == \A p \in 1 .. (Len(t) - 1) : t[p].click = "ok"

ReturnsWholeTable(i) ==
    /\ ret[i].transactions = TableRows(site[i], Len(site[i]))
    /\ ret[i].totalTransactions = Len(TableRows(site[i], Len(site[i])))
    /\ ret[i].totalPages = Len(site[i])

WholeTableAsStated ==
    \A i \in Indices :
        (/\ Fixed(i)
         /\ cpc[i] = "fulfilled"
         /\ ret[i].kind = "ok"
         /\ AllClicksSucceed(site[i])) => ReturnsWholeTable(i)

\* C8 (amended): the same, for a table whose pages before the last each
\* render at least one row.
NoEmptyPageBeforeLast(t) == \A p \in 1 .. (Len(t) - 1) : t[p].rows >= 1

WholeTable ==
    \A i \in Indices :
        (/\ Fixed(i)
         /\ cpc[i] = "fulfilled"
         /\ ret[i].kind = "ok"
         /\ AllClicksSucceed(site[i])
         /\ NoEmptyPageBeforeLast(site[i])) => ReturnsWholeTable(i)

\* A table of three pages with 2, 2 and 1 rows was crawled to its end.
WholeTableWitness ==
    /\ Fixed(0)
    /\ Len(site[0]) = 3
    /\ site[0][1].rows = 2 /\ site[0][2].rows = 2 /\ site[0][3].rows = 1
    /\ AllClicksSucceed(site[0])
    /\ cpc[0] = "fulfilled"
    /\ ret[0].kind = "ok"
    /\ ret[0].totalTransactions = 5
    /\ ret[0].totalPages = 3

\* ---- C9
\* C9: when the wait for the table root timed out, the controller returns
\* the success result with no transactions and totalPages = 1, and no
\* progress event of status error was written for the URL.
TableAbsentIsSuccess ==
    \A i \in Indices :
        (rootFound[i] = "no" /\ cpc[i] = "fulfilled") =>
            /\ ret[i] = SuccessResult(UrlOf(i), << >>, 1)
            /\ \A k \in 1 .. Len(progress[i]) : progress[i][k].status # "error"

\* ---- C10
\* C10: when the click on the next control throws on page p, the step that
\* follows writes the completed event and settles the controller without
\* the error variant: the value returned is the success result holding the
\* rows of pages 1..p, which are exactly the rows accumulated so far.
ClickThrowStep ==
    \A i \in Indices :
        (/\ Fixed(i)
         /\ cpc[i] = "click"
         /\ site[i][currentPage[i]].click = "throw"
         /\ cpc'[i] # "click") =>
            /\ allTransactions[i] = TableRows(site[i], currentPage[i])
            /\ progress'[i] =
                  Append(progress[i],
                         Event("completed", 0, Len(allTransactions[i])))
            /\ cpc'[i] \in {"fulfilled", "rejected"}
            /\ cpc'[i] = "fulfilled" =>
                  ret'[i] = SuccessResult(UrlOf(i), allTransactions[i],
                                           currentPage[i])
            /\ cpc'[i] = "rejected" => ret'[i] = Rejection("close failed")

ClickThrowKeepsRows == [][ClickThrowStep]_vars

\* The click threw on page 2 of a longer table: the rows of pages 1 and 2
\* were returned with totalPages = 2.
ClickThrowKeepsRowsWitness ==
    /\ Fixed(0)
    /\ Len(site[0]) = 3
    /\ site[0][1].click = "ok"
    /\ site[0][2].click = "throw"
    /\ cpc[0] = "fulfilled"
    /\ ret[0].kind = "ok"
    /\ ret[0].totalPages = 2
    /\ ret[0].transactions = TableRows(site[0], 2)
    /\ Len(ret[0].transactions) >= 2
    /\ progress[0][Len(progress[0])].status = "completed"

\* ---- C11
\* C11: when the wait for row elements times out at the start of a cycle on
\* page p (the first cycle or a later one), the step writes the completed
\* event and settles the controller with the success result holding the
\* rows of pages 1..p-1, which is everything accumulated so far (nothing on
\* the first cycle), and never with the error variant.
RowWaitStep ==
    \A i \in Indices :
        (/\ Fixed(i)
         /\ cpc[i] = "scrape"
         /\ site[i][currentPage[i]].rows = 0
         /\ cpc'[i] # "scrape") =>
            /\ allTransactions[i] = TableRows(site[i], currentPage[i] - 1)
            /\ progress'[i] =
                  Append(progress[i],
                         Event("completed", 0, Len(allTransactions[i])))
            /\ cpc'[i] \in {"fulfilled", "rejected"}
            /\ cpc'[i] = "fulfilled" =>
                  /\ ret'[i].kind = "ok"
                  /\ ret'[i] = SuccessResult(UrlOf(i), allTransactions[i],
                                              currentPage[i])
            /\ cpc'[i] = "rejected" => ret'[i] = Rejection("close failed")

RowWaitEndsLoop == [][RowWaitStep]_vars

\* No row appeared on page 2 after the two rows of page 1 were accumulated:
\* these two rows were returned as a success.
RowWaitEndsLoopWitness ==
    /\ Fixed(0)
    /\ Len(site[0]) = 3
    /\ site[0][1].rows = 2
    /\ site[0][1].click = "ok"
    /\ site[0][2].rows = 0
    /\ cpc[0] = "fulfilled"
    /\ ret[0].kind = "ok"
    /\ ret[0].transactions = TableRows(site[0], 1)
    /\ ret[0].totalTransactions = 2
    /\ progress[0][Len(progress[0])] = Event("completed", 0, 2)

\* ---- C12
\* C12: when the click on the next control of page p succeeded and the wait
\* for network idle timed out, the step does not leave the loop: nothing is
\* returned, the accumulator is kept, the page counter becomes p + 1 and the
\* controller stands at the row wait of the next cycle.
IdleTimeoutStep ==
    \A i \in Indices :
        (/\ Fixed(i)
         /\ cpc[i] = "click"
         /\ BrowserOpen(i)
         /\ site[i][currentPage[i]].click = "ok"
         /\ site[i][currentPage[i]].idle = "timeout"
         /\ ControllerStateNext(i) # ControllerState(i)) =>
            /\ cpc'[i] = "scrape"
            /\ currentPage'[i] = currentPage[i] + 1
            /\ allTransactions'[i] = allTransactions[i]
            /\ ret'[i] = NoResult
            /\ progress'[i] = progress[i]

IdleTimeoutKeepsLoop == [][IdleTimeoutStep]_vars

\* The idle wait timed out after the click on page 1 of a table of two
\* pages: page 2 was scraped in the next cycle and both pages were returned.
IdleTimeoutKeepsLoopWitness ==
    /\ Fixed(0)
    /\ Len(site[0]) = 2
    /\ site[0][1].rows = 2
    /\ site[0][1].click = "ok"
    /\ site[0][1].idle = "timeout"
    /\ site[0][2].rows = 1
    /\ cpc[0] = "fulfilled"
    /\ ret[0].kind = "ok"
    /\ ret[0].totalPages = 2
    /\ ret[0].transactions = TableRows(site[0], 2)
    /\ progress[0][Len(progress[0]) - 1] = Event("scraping", 2, 0)

\* ---- C13
\* C13: a step in which the navigation fails (the controller leaves "nav"
\* without having loaded the page) or a page evaluation throws, at any point
\* of the controller and whatever was accumulated, ends this URL's
\* controller with the error variant: url, the message, an empty
\* transaction list and neither totalPages nor totalTransactions; and the
\* progress event of status error carrying that message is handed to
\* emitProgress, which writes it while the session is registered.
Threw(i) ==
    /\ cpc'[i] = "fulfilled"
    /\ ret'[i].kind = "err"
    /\ ret'[i].error \in FatalMessages

EndsFailed(i, message) ==
    /\ ret'[i] = [kind |-> "err", url |-> UrlOf(i), error |-> message,
                  transactions |-> << >>]
    /\ progress'[i] = IF SessionId \in activeCrawls
                      THEN Append(progress[i], ErrorEvent(message))
                      ELSE progress[i]

FatalStep ==
    \A i \in Indices :
        /\ (cpc[i] = "nav" /\ cpc'[i] \notin {"nav", "probe", "rejected"}) =>
              /\ cpc'[i] = "fulfilled"
              /\ EndsFailed(i, "navigation failed")
        /\ (cpc[i] \in {"probe", "filters", "scrape", "next"} /\ Threw(i)) =>
              EndsFailed(i, "evaluation failed")

FatalEndsUrl == [][FatalStep]_vars

\* An evaluation threw on page 2, after the rows of page 1 had been
\* accumulated: the error variant holds none of them, and the last progress
\* event is the error event with the message.
FatalEndsUrlWitness ==
    \E i \in Indices :
        /\ cpc[i] = "fulfilled"
        /\ ret[i] = ErrorResult(UrlOf(i), "evaluation failed")
        /\ Len(progress[i]) >= 2
        /\ progress[i][Len(progress[i]) - 1] = Event("scraping", 1, 0)
        /\ progress[i][Len(progress[i])] = ErrorEvent("evaluation failed")

\* ---- C14
\* C14: while the session is not in the registry (never registered, or
\* deleted), no step writes to the stream or delivers a progress event, a
\* step of a controller that calls emitProgress included, and such a step
\* settles or advances the controller as it would otherwise; and what was
\* delivered is never reordered or withdrawn: every step leaves the stream
\* and each URL's delivered events as they are or appends to them.
IsPrefix(s, t) == Len(s) <= Len(t) /\ SubSeq(t, 1, Len(s)) = s

SilentStep ==
    /\ SessionId \notin activeCrawls =>
          /\ stream' = stream
          /\ progress' = progress
          /\ \A i \in Indices :
                cpc'[i] = "rejected" =>
                    \/ cpc[i] = "rejected"
                    \/ ret'[i] \in {Rejection("close failed"),
                                     Rejection("newPage failed")}
    /\ IsPrefix(stream, stream')
    /\ \A i \in Indices : IsPrefix(progress[i], progress'[i])

SilentWithoutSession == [][SilentStep]_vars

\* The session was deleted (and the browsers closed) while a controller was
\* in flight after its "starting" event; its navigation then failed, the
\* error event it emitted was delivered nowhere, and it went on to its
\* finally, where closing the tab of the closed browser rejected.
SilentWithoutSessionWitness ==
    /\ hpc = "ended"
    /\ SessionId \notin activeCrawls
    /\ \E i \in Indices :
          /\ cpc[i] = "rejected"
          /\ ret[i] = Rejection("close failed")
          /\ tab[i].state = "open"
          /\ progress[i] = << Event("starting", 0, 0) >>

\* ---- C15
\* C15: the registry holds no entry before a batch is accepted and none for
\* a rejected request; it holds the batch's entry from the acceptance on,
\* hence before any controller is started or any progress event emitted,
\* and as long as the handler runs; and it holds no entry once the handler
\* has ended, whether the results were sent and saved, the save failed, or
\* the batch failed as a whole.
Running ==
    hpc \in {"init", "start", "crawl", "threw", "returned", "respond", "persist"}

TerminalKinds == {"complete", "error"}

OneTerminalEvent ==
    /\ \A k \in 1 .. Len(stream) :
          /\ stream[k] \in {"progress"} \cup TerminalKinds
          /\ stream[k] \in TerminalKinds => k = Len(stream)
    /\ (hpc = "ended") =>
          /\ Len(stream) > 0
          /\ stream[Len(stream)] \in TerminalKinds
          /\ ~ streamOpen

\* ---- C18
\* C18: a request is rejected exactly when its URL list is missing, is not
\* a list or is empty; a rejected request is answered with status 400 and
\* leaves no session registered, no browser launched, no controller started
\* and no event stream opened or written; a request with a non-empty list
\* is accepted and its event stream opened with status 200.
EmptyList == reqKind = "list" /\ Len(urls) = 0

RejectedExactlyWhenNoUrls ==
    /\ reqKind # "none" =>
          ((hpc = "rejected") <=> (reqKind \in {"missing", "notArray"} \/ EmptyList))
    /\ hpc = "rejected" =>
          /\ httpStatus = 400
          /\ activeCrawls = {}
          /\ browsers = << >>
          /\ Started = {}
          /\ ~ streamOpen
          /\ stream = << >>
    /\ (reqKind = "list" /\ Len(urls) > 0) => httpStatus = 200

\* An empty list was sent and rejected.
RejectedExactlyWhenNoUrlsWitness ==
    /\ EmptyList
    /\ hpc = "rejected"
    /\ httpStatus = 400

\* ---- C17
\* C17: under fair scheduling, every accepted batch comes to its end with
\* the stream closed; and once the controllers are running, each of them
\* settles, whatever the page shows (rows or none, the next control
\* enabled, disabled or absent, on any page), after which the outcomes are
\* aggregated, every browser is closed and the stream is closed.
Finished ==
    /\ hpc = "ended"
    /\ ~ streamOpen
    /\ \A i \in 0 .. (N - 1) : cpc[i] \in {"fulfilled", "rejected"}
    /\ Len(results) = N
    /\ \A b \in 1 .. Len(browsers) : browsers[b] = "closed"

EveryBatchFinishes ==
    /\ (httpStatus = 200) ~> (hpc = "ended" /\ ~ streamOpen)
    /\ (hpc = "crawl") ~> Finished

\* ---- C19
\* C19: in every record the row extractor returns, floor is present only if
\* address is present and contains a unit number, that is "#", two or more
\* digits and a hyphen, and floor is then the digits of that unit number;
\* a record without address, or whose address holds no such unit number,
\* has no floor.
UnitNumbers(s) ==
    { pq \in (1 .. Len(s)) \X (1 .. Len(s)) :
        /\ s[pq[1]] = "#"
        /\ pq[2] - pq[1] - 1 >= 2
        /\ \A k \in (pq[1] + 1) .. (pq[2] - 1) : s[k] \in Digits
        /\ s[pq[2]] = "-" }

HasUnitNumber(t) ==
    /\ "address" \in DOMAIN t
    /\ UnitNumbers(t.address.text) # {}

FloorOnlyFromUnitNumber ==
    extracted.kind = "pageData" =>
        \A k \in 1 .. Len(extracted.records) :
            LET t == extracted.records[k]
            IN /\ "floor" \in DOMAIN t =>
                    /\ HasUnitNumber(t)
                    /\ \E pq \in UnitNumbers(t.address.text) :
                          t.floor = Str(SubSeq(t.address.text, pq[1] + 1,
                                               pq[2] - 1))
               /\ ~ HasUnitNumber(t) => "floor" \notin DOMAIN t

\* ---- C20
\* C20: the row extractor returns one record for each row of the page,
\* whatever is missing from the rows; and in the record of a row, each of
\* the nine fields read from the row is left out when its container or the
\* value element inside the container is absent, and is the trimmed text
\* of the value element otherwise, whatever else is missing from the row.
ReadFields == FieldNames \ {"floor"}

ContainerOf(r, f) ==
    CASE f = "date" -> r.date
      [] f \in {"bedrooms", "size"} -> r.bedroom
      [] f \in {"price", "pricePerSqft"} -> r.price
      [] f = "floorLevel" -> r.floorLevel
      [] f = "buildStatus" -> r.completed
      [] f = "lease" ->
            IF r.sibling.kind = "expanded" THEN r.sibling.lease ELSE Absent
      [] f = "address" ->
            IF r.sibling.kind = "expanded" THEN r.sibling.address ELSE Absent

ValueElementOf(r, f) ==
    CASE f \in {"bedrooms", "price"} -> ContainerOf(r, f).main
      [] f \in {"size", "pricePerSqft"} -> ContainerOf(r, f).sub
      [] OTHER -> ContainerOf(r, f).value

Missing(r, f) ==
    \/ ContainerOf(r, f).kind = "absent"
    \/ ValueElementOf(r, f).kind = "absent"

MissingIsOmitted ==
    extracted.kind = "pageData" =>
        /\ Len(extracted.records) = Len(rowElements)
        /\ \A k \in 1 .. Len(rowElements) :
              \A f \in ReadFields :
                  LET r == rowElements[k]
                      t == extracted.records[k]
                  IN IF Missing(r, f)
                     THEN f \notin DOMAIN t
                     ELSE /\ f \in DOMAIN t
                          /\ t[f] = Str(TrimText(
                                         ValueElementOf(r, f).textContent))

\* A row with its date, a bedroom cell without its ".sub-text", no price
\* cell and an address item without its value: the record holds date and
\* bedrooms, and none of size, price, pricePerSqft, address and floor.
MissingIsOmittedWitness ==
    /\ extracted.kind = "pageData"
    /\ Len(rowElements) = 1
    /\ rowElements[1].date = Cell(Element(CellText))
    /\ rowElements[1].bedroom = Cell2(Element(CellText), Absent)
    /\ rowElements[1].price = Absent
    /\ rowElements[1].sibling.kind = "expanded"
    /\ rowElements[1].sibling.address = Cell(Absent)
    /\ Len(extracted.records) = 1
    /\ {"date", "bedrooms"} \subseteq DOMAIN extracted.records[1]
    /\ extracted.records[1].bedrooms = Str(<< "x" >>)
    /\ DOMAIN extracted.records[1]
          \cap {"size", "price", "pricePerSqft", "address", "floor"} = {}

\* ---- C21
\* What a run produced: the transactions and the page count of the result
\* it returned or saved, and nothing when it gave no success result.
Produced(r) ==
    IF r.kind \in {"ok", "saved"}
    THEN [transactions |-> r.transactions, totalPages |-> r.totalPages]
    ELSE [transactions |-> << >>, totalPages |-> 0]

\* The batch controller of URL 0 and the CLI have both run to their end on
\* the same table, with the same answer about the table root and without a
\* failed navigation or evaluation.
BothRan ==
    /\ cli.pc \in {"done", "exited"}
    /\ cpc[0] = "fulfilled"
    /\ cli.rootFound = rootFound[0]
    /\ \/ ret[0].kind = "ok"
       \/ ret[0] = TableAbsentResult(UrlOf(0))

\* C21: the CLI crawler and the batch controller run the same pagination
\* state machine: on the same page behaviour (table present or absent, rows
\* present or absent on each page, next control enabled, disabled or absent,
\* click succeeding or failing) both produce the same accumulated
\* transactions and the same totalPages.
SamePagination == BothRan => Produced(cli.result) = Produced(ret[0])

\* ---- C22
\* The rows of the first v page visits of a crawl of table t, in visit order
\* then row order: visit k sees page k, or the last page once k has passed it.
RECURSIVE VisitedRows(_, _)
VisitedRows(t, v) ==
    IF v = 0 THEN << >>
    ELSE LET p == IF v > Len(t) THEN Len(t) ELSE v
         IN VisitedRows(t, v - 1) \o PageData(p, t[p].rows)

\* The number of pages URL i has extracted so far in its loop.
Extractions(i) ==
    IF cpc[i] = "scrape" THEN currentPage[i] - 1 ELSE currentPage[i]

\* C22: after every cycle the accumulator is the concatenation, in page-visit
\* order and then row order, of the rows extracted on each page visited so
\* far: nothing is dropped, reordered or deduplicated, and records that are
\* identical on two visits are all kept.
AccumulatorIsConcatenation ==
    \A i \in Indices :
        (/\ Fixed(i)
         /\ cpc[i] \in {"scrape", "next", "click"}
         /\ currentPage[i] < CountCap) =>
            allTransactions[i] = VisitedRows(site[i], Extractions(i))

\* Two visits have shown the same page, and its records are held twice.
AccumulatorIsConcatenationWitness ==
    /\ cpc[0] = "next"
    /\ currentPage[0] = Len(site[0]) + 1
    /\ currentPage[0] < CountCap
    /\ Len(allTransactions[0]) >= 2
    /\ allTransactions[0][Len(allTransactions[0])] \in
          { allTransactions[0][k] : k \in 1 .. (Len(allTransactions[0]) - 1) }

\* ---- C23
Terminal(ev) == ev.status \in {"completed", "error"}

ScrapingEvents(e) == SelectSeq(e, LAMBDA ev : ev.status = "scraping")

\* C23: the progress events of one URL come in protocol order: starting,
\* then loading, then scraping events, one per extracted page with
\* increasing page index, and last exactly one terminal event (completed,
\* carrying the total transaction count, or error); nothing follows the
\* terminal event, and a URL whose controller has settled has had its
\* terminal event.  (The events of different URLs interleave freely: the
\* statement is about each URL's own events.)
ProgressProtocol ==
    \A i \in Indices :
        LET e == progress[i]
        IN /\ Len(e) >= 1 => e[1].status = "starting"
           /\ \A k \in 2 .. Len(e) :
                 /\ ~ Terminal(e[k - 1])
                 /\ e[k].status # "starting"
                 /\ e[k].status = "loading" => k = 2
                 /\ e[k].status \in {"scraping", "completed"} =>
                        e[2].status = "loading"
           /\ \A k \in 1 .. Len(ScrapingEvents(e)) :
                 ScrapingEvents(e)[k].page = k
           /\ i \in Settled =>
                 /\ Len(e) >= 1
                 /\ Terminal(e[Len(e)])
                 /\ ret[i].kind = "ok" =>
                        /\ e[Len(e)].status = "completed"
                        /\ e[Len(e)].count = ret[i].totalTransactions

\* ---- C24
\* The number of pages whose rows URL i has extracted: one scraping event
\* with the page's index is emitted for each.
PagesExtracted(i) ==
    Len(SelectSeq(progress[i],
                  LAMBDA ev : ev.status = "scraping" /\ ev.page >= 1))

\* C24: totalPages of a success result is the page counter at loop exit; it
\* is never smaller than the number of pages whose rows were extracted and
\* exceeds it by at most one; and the counter, set to 1 before the loop, is
\* incremented by one only after a click that succeeded.
TotalPagesIsCounter ==
    [][\A i \in Indices :
          /\ currentPage'[i] > currentPage[i] =>
                \/ cpc[i] = "filters" /\ currentPage'[i] = 1
                \/ /\ cpc[i] = "click"
                   /\ "ok" \in ClickChoices(i)
                   /\ currentPage'[i] = currentPage[i] + 1
          /\ (i \notin Settled /\ cpc'[i] = "fulfilled"
                               /\ ret'[i].kind = "ok") =>
                /\ ret'[i].totalPages = currentPage[i]
                /\ PagesExtracted(i)' <= ret'[i].totalPages
                /\ ret'[i].totalPages <= PagesExtracted(i)' + 1]_vars

\* A success result whose page count is one more than the pages extracted:
\* the click succeeded and the next page showed no row.
TotalPagesIsCounterWitness ==
    /\ cpc[0] = "fulfilled"
    /\ ret[0].kind = "ok"
    /\ ret[0].totalPages = 2
    /\ PagesExtracted(0) = 1

\* ---- C25
IsSuccess(r) == "totalPages" \in DOMAIN r /\ "totalTransactions" \in DOMAIN r

IsError(r) == "error" \in DOMAIN r

\* C25: every result a controller returns is well formed: it is a success
\* result, with totalPages >= 1 and totalTransactions equal to the length of
\* its transactions, or an error result, with a message and no transactions;
\* and it is never both.
ResultWellFormed ==
    \A i \in Indices :
        cpc[i] = "fulfilled" =>
            LET r == ret[i]
            IN /\ IsSuccess(r) \/ IsError(r)
               /\ ~ (IsSuccess(r) /\ IsError(r))
               /\ IsSuccess(r) =>
                     /\ r.totalPages >= 1
                     /\ r.totalTransactions = Len(r.transactions)
               /\ IsError(r) =>
                     /\ r.error # ""
                     /\ r.transactions = << >>

\* One URL of the batch returned rows and the other an error.
ResultWellFormedWitness ==
    /\ cpc[0] = "fulfilled" /\ IsSuccess(ret[0])
    /\ Len(ret[0].transactions) > 0
    /\ cpc[1] = "fulfilled" /\ IsError(ret[1])

\* ---- C26
\* Request b has been accepted and its handler has not reached its finally.
InFlight(b) == batch[b].pc \in {"crawling", "persist"}

\* C26: two batches in flight never share a registry entry: whatever the
\* interleaving of two accepted requests (accepted at the same clock value
\* included), every event on a response was written for that response's own
\* batch, and a batch in flight finds its own entry, with its own response
\* and start time, under its session id: the other batch has neither
\* replaced nor removed it.
SessionsIsolated ==
    \A b \in Batches :
        /\ \A k \in 1 .. Len(batch[b].written) : batch[b].written[k].from = b
        /\ InFlight(b) =>
              /\ batch[b].sessionId \in DOMAIN registry
              /\ registry[batch[b].sessionId].res = b
              /\ \A c \in Batches \ {b} :
                    InFlight(c) => batch[c].sessionId # batch[b].sessionId

\* ---- C27
\* The controllers that have been called and have not settled.
InFlightUrls == Started \ Settled

\* C27: no browser is closed while the controller of any URL is still in
\* flight: the pool is closed only once every controller that was started
\* has settled, so that no controller is left to work on a closed browser.
NoCloseInFlight ==
    (\E b \in 1 .. Len(browsers) : browsers[b] = "closed") =>
        InFlightUrls = {}

\* ---- C28
\* The one page.close() of controller i was attempted and rejected.
CloseRejected(i) == ret[i] = Rejection("close failed")

\* C28: every tab a controller opened is closed before that controller's
\* outcome is delivered, whichever way the controller is left, and when the
\* browsers are torn down no tab of the batch is still open.  A tab whose
\* close was attempted and rejected is left aside.  (A tab is a local of the
\* controller that opened it: tab[i] is written by the steps of URL i only.)
TabsClosed ==
    \A i \in Indices :
        (tab[i].state = "open" /\ ~ CloseRejected(i)) =>
            /\ i \notin Settled
            /\ \A b \in 1 .. Len(browsers) : browsers[b] # "closed"

====
